---- MODULE Spec2Model ----
(***************************************************************************)
(* Model of src/index.js: an express application whose handlers share one *)
(* lazily opened MongoDB client.  Every handler is an async function; it  *)
(* runs atomically between two awaits, and the store executes each        *)
(* operation (findOne, insertOne, updateOne, ...) atomically at some      *)
(* point between its being issued and the handler being resumed.          *)
(***************************************************************************)
EXTENDS Integers, Sequences, FiniteSets, TLC

VARIABLES client, connected, handles, created, connects,
          products, carts, nextOid, lastw, req

vars == <<client, connected, handles, created, connects,
          products, carts, nextOid, lastw, req>>

(* ---------------- bounds ---------------- *)
(* requests of each specification, valid :id values, concurrent requests *)
MaxCartReqs == 3
MaxReadReqs == 3
MaxToggleReqs == 4
MaxIdParam == 1
MaxInFlight == 2

Max(a, b) == IF a > b THEN a ELSE b

CartReqs == 1..MaxCartReqs
ReadReqs == 1..MaxReadReqs
ToggleReqs == 1..MaxToggleReqs
Reqs == 1..Max(MaxCartReqs, Max(MaxReadReqs, MaxToggleReqs))
Oids == Reqs

UserIds == {"u1", "u2"}
ProductIds == {"p1", "p2"}
Missing == "undefined"

(* JSON values a body can carry in inStock, as their JSON text *)
JsTrue == "true"
JsFalse == "false"
InStockVals == {JsFalse, "'yes'"}

(* ---------------- values ---------------- *)
Null == [none |-> TRUE]

Obj(s) == [type |-> "object", obj |-> s, arr |-> <<>>]
Arr(a) == [type |-> "array", obj |-> {}, arr |-> a]

SuccessTrue == Obj({<<"success", "true">>})
SuccessFalse == Obj({<<"success", "false">>})
RootOk == Obj({<<"status", "ok">>, <<"message", "ProductHub Server is Running">>})
RootError == Obj({<<"status", "error">>})
EmptyObject == Obj({})
EmptyArray == Arr(<<>>)

NoResponse == [status |-> 0, body |-> Obj({<<"pending", "true">>})]

IdleReq == [kind |-> "none", pc |-> "idle", uid |-> Missing, pid |-> Missing,
            id |-> 0, val |-> Missing, cart |-> Null, product |-> Null,
            status |-> 0, body |-> NoResponse.body,
            wrote |-> Missing, threw |-> FALSE,
            ovl |-> FALSE, racing |-> {}, seenw |-> 0, clean |-> FALSE]

(* ---------------- JavaScript helpers ---------------- *)
(* !v : "", 0, null, undefined, false are falsy *)
Falsy(v) == v \in {JsFalse, "0", "''", "null", Missing}

(* variant: the toggle always writes false *)
NotMut(v) == JsFalse

Not(v) == IF Falsy(v) THEN JsTrue ELSE JsFalse

(* ---------------- connectDB ---------------- *)
(* variant: connectDB without the reuse guard *)
ReuseMut(c) == FALSE

(* if (client) return client; *)
Reuse(c) == c

(* ---------------- ObjectId ---------------- *)
(* A path parameter :id is modelled by a number: n >= 1 is the 24-digit hex *)
(* string of the ObjectId n, 0 is a string that is no ObjectId.             *)
(* new ObjectId(s) throws unless s is well formed                           *)
ValidObjectId(s) == s >= 1

(* ---------------- responses ---------------- *)
(* variant: the listing handlers answer like the mutation handlers *)
FailList(kind) ==
  CASE kind = "root" -> [status |-> 500, body |-> RootError]
    [] kind = "get" -> [status |-> 200, body |-> EmptyObject]
    [] OTHER -> [status |-> 500, body |-> SuccessFalse]

(* variant: GET /products/:id answers like the mutation handlers *)
FailGet(kind) ==
  CASE kind = "root" -> [status |-> 500, body |-> RootError]
    [] kind \in {"list", "byUser"} -> [status |-> 200, body |-> EmptyArray]
    [] OTHER -> [status |-> 500, body |-> SuccessFalse]

(* the catch block of each handler *)
Fail(kind) ==
  CASE kind = "root" -> [status |-> 500, body |-> RootError]
    [] kind \in {"list", "byUser"} -> [status |-> 200, body |-> EmptyArray]
    [] kind = "get" -> [status |-> 200, body |-> EmptyObject]
    [] OTHER -> [status |-> 500, body |-> SuccessFalse]

(* res.status(s).send(b): the request is finished *)
Respond(rq, s, b) == [rq EXCEPT !.pc = "done", !.status = s, !.body = b]

Catch(rq) ==
  [Respond(rq, Fail(rq.kind).status, Fail(rq.kind).body) EXCEPT !.threw = TRUE]

(* the code of a handler between `await connectDB()` returning normally and *)
(* the handler's first store operation being issued; h is whether the       *)
(* collection handles are assigned (a method call on undefined throws)      *)
Proceed(rq, h) ==
  CASE rq.kind = "root" -> Respond(rq, 200, RootOk)
    [] rq.kind = "cartAdd" /\ (rq.uid = Missing \/ rq.pid = Missing) ->
         Respond(rq, 400, SuccessFalse)
    [] rq.kind \in {"get", "put", "delete", "toggle"} /\ h /\ ~ValidObjectId(rq.id) ->
         Catch(rq)
    [] OTHER -> IF h THEN [rq EXCEPT !.pc = "op1"] ELSE Catch(rq)

(* ---------------- cart items ---------------- *)
(* variant: items.find never matches *)
FindItemNone(items, pid) == 0 * Len(items)

RECURSIVE FindItem(_, _)
(* items.find((i) => i.productId === productId): index of first match, 0 if none *)
FindItem(items, pid) ==
  IF items = <<>> THEN 0
  ELSE IF Head(items).productId = pid THEN 1
  ELSE LET k == FindItem(Tail(items), pid) IN IF k = 0 THEN 0 ELSE k + 1

(* variant: the item is always pushed *)
AddItemMut(items, pid) == Append(items, [productId |-> pid, qty |-> 1])

(* if (item) item.qty++; else items.push({ productId, qty: 1 }); *)
AddItem(items, pid) ==
  LET k == FindItem(items, pid) IN
  IF k > 0 THEN [items EXCEPT ![k].qty = @ + 1]
  ELSE Append(items, [productId |-> pid, qty |-> 1])

(* variant: the update is applied to the stored items (atomic increment) *)
ItemsCopyMut(cart, stored) == stored.items

(* const items = [...cart.items]; cart is the document findOne returned *)
ItemsCopy(cart, stored) == cart.items

(* indices of the documents of a collection matching a predicate *)
MatchingCarts(u) == {i \in 1..Len(carts) : carts[i].userId = u}
MatchingProducts(id) == {i \in 1..Len(products) : products[i]._id = id}

(* the document a single-document operation acts on: the first match *)
FirstOf(S) == CHOOSE i \in S : \A j \in S : i <= j

(* ---------------- initial state ---------------- *)
Init ==
  /\ client = FALSE
  /\ connected = FALSE
  /\ handles = FALSE
  /\ created = 0
  /\ connects = 0
  /\ products = <<>>
  /\ carts = <<>>
  /\ nextOid = 1
  /\ req = [r \in Reqs |-> IdleReq]
  /\ lastw = [i \in Oids |-> 0]

(* ---------------- arrival of a request ---------------- *)
(* requests are numbered in their order of arrival *)
CanArrive(r) ==
  /\ req[r].pc = "idle"
  /\ Cardinality({q \in Reqs : req[q].pc \notin {"idle", "done"}}) < MaxInFlight
  /\ \A q \in Reqs : q < r => req[q].pc # "idle"

(* the handler up to and including the synchronous part of connectDB() *)
Enter(r, rq) ==
  /\ CanArrive(r)
  /\ IF Reuse(client)
     THEN /\ req' = [req EXCEPT ![r] = Proceed(rq, handles)]
          /\ UNCHANGED <<client, created, connects>>
     ELSE /\ client' = TRUE
          /\ created' = created + 1
          /\ connects' = connects + 1
          /\ req' = [req EXCEPT ![r] = [rq EXCEPT !.pc = "connecting"]]
  /\ UNCHANGED <<connected, handles, products, carts, nextOid, lastw>>

(* client.connect() resolves: the handles are assigned, the handler goes on *)
ConnectOk(r) ==
  /\ req[r].pc = "connecting"
  /\ connected' = TRUE
  /\ handles' = TRUE
  /\ req' = [req EXCEPT ![r] = Proceed(req[r], TRUE)]
  /\ UNCHANGED <<client, created, connects, products, carts, nextOid, lastw>>

(* client.connect() rejects: connectDB() throws into the handler's catch *)
ConnectFail(r) ==
  /\ req[r].pc = "connecting"
  /\ req' = [req EXCEPT ![r] = Catch(req[r])]
  /\ UNCHANGED <<client, connected, handles, created, connects, products, carts, nextOid, lastw>>

(* a store operation of request r rejects, without effect on the store *)
StoreThrows(r) ==
  /\ req[r].pc \in {"op1", "op2"}
  /\ req' = [req EXCEPT ![r] = Catch(req[r])]
  /\ UNCHANGED <<client, connected, handles, created, connects, products, carts, nextOid, lastw>>

(* ---------------- GET / ---------------- *)
Root(r) == Enter(r, [IdleReq EXCEPT !.kind = "root"])

(* ---------------- POST /cart/add ---------------- *)
InFlight(q) == req[q].pc \notin {"idle", "done"}

CartAdd(r, u, p) ==
  Enter(r, [IdleReq EXCEPT !.kind = "cartAdd", !.uid = u, !.pid = p,
              !.ovl = \E q \in Reqs : InFlight(q) /\ req[q].kind = "cartAdd" /\ req[q].uid = u])

(* the other cart-add requests of the same user that have read the cart and *)
(* not yet written it                                                       *)
Racing(r) ==
  {q \in Reqs \ {r} : req[q].kind = "cartAdd" /\ req[q].uid = req[r].uid /\ req[q].pc = "op2"}

(* const cart = await Carts.findOne({ userId }) *)
CartFindOne(r) ==
  /\ req[r].kind = "cartAdd"
  /\ req[r].pc = "op1"
  /\ LET M == MatchingCarts(req[r].uid) IN
       req' = [req EXCEPT ![r].pc = "op2", ![r].racing = Racing(r),
                          ![r].cart = IF M = {} THEN Null ELSE carts[FirstOf(M)]]
  /\ UNCHANGED <<client, connected, handles, created, connects, products, carts, nextOid, lastw>>

(* Carts.insertOne(...) or Carts.updateOne({ userId }, { $set: { items } }), *)
(* then res.send({ success: true })                                          *)
CartWrite(r) ==
  /\ req[r].kind = "cartAdd"
  /\ req[r].pc = "op2"
  /\ LET rq == req[r]
         M == MatchingCarts(rq.uid) IN
       IF rq.cart = Null
       THEN carts' = Append(carts, [userId |-> rq.uid,
                                    items |-> <<[productId |-> rq.pid, qty |-> 1]>>])
       ELSE IF M = {} THEN carts' = carts
       ELSE carts' = [carts EXCEPT ![FirstOf(M)].items =
                        AddItem(ItemsCopy(rq.cart, carts[FirstOf(M)]), rq.pid)]
  /\ req' = [req EXCEPT ![r] = Respond(req[r], 200, SuccessTrue)]
  /\ UNCHANGED <<client, connected, handles, created, connects, products, nextOid, lastw>>

NextCart ==
  \/ \E r \in CartReqs : Root(r)
  \/ \E r \in CartReqs, u \in {"u1", Missing}, p \in ProductIds \cup {Missing} : CartAdd(r, u, p)
  \/ \E r \in CartReqs : ConnectOk(r)
  \/ \E r \in CartReqs : ConnectFail(r)
  \/ \E r \in CartReqs : StoreThrows(r)
  \/ \E r \in CartReqs : CartFindOne(r)
  \/ \E r \in CartReqs : CartWrite(r)

SpecCart == Init /\ [][NextCart]_vars

(* ---------------- products ---------------- *)
DocObj(d) == Obj({<<"_id", ToString(d._id)>>, <<"userId", d.userId>>, <<"inStock", d.inStock>>})

(* GET /products *)
List(r) == Enter(r, [IdleReq EXCEPT !.kind = "list"])

(* GET /products/user/:uid *)
ByUser(r, u) == Enter(r, [IdleReq EXCEPT !.kind = "byUser", !.uid = u])

(* Products.find(filter).toArray(); res.send(Array.isArray(products) ? products : []) *)
ProductsFind(r) ==
  /\ req[r].kind \in {"list", "byUser"}
  /\ req[r].pc = "op1"
  /\ LET Sel(d) == req[r].kind = "list" \/ d.userId = req[r].uid IN
       req' = [req EXCEPT ![r] = Respond(req[r], 200, Arr(SelectSeq(products, Sel)))]
  /\ UNCHANGED <<client, connected, handles, created, connects, products, carts, nextOid, lastw>>

(* GET /products/:id *)
Get(r, i) == Enter(r, [IdleReq EXCEPT !.kind = "get", !.id = i])

(* Products.findOne({ _id }); res.send(product || {}) *)
GetFindOne(r) ==
  /\ req[r].kind = "get"
  /\ req[r].pc = "op1"
  /\ LET M == MatchingProducts(req[r].id)
         d == IF M = {} THEN Null ELSE products[FirstOf(M)] IN
       req' = [req EXCEPT ![r] = Respond([req[r] EXCEPT !.product = d], 200,
                                         IF d = Null THEN EmptyObject ELSE DocObj(d))]
  /\ UNCHANGED <<client, connected, handles, created, connects, products, carts, nextOid, lastw>>

(* POST /products: the body carries userId u and inStock v *)
Post(r, u, v) == Enter(r, [IdleReq EXCEPT !.kind = "post", !.uid = u, !.val = v])

(* { ...req.body, inStock: true, createdAt: new Date() } *)
NewProduct(oid, u, v) == [_id |-> oid, userId |-> u, inStock |-> JsTrue]

(* Products.insertOne(product) *)
PostInsertOne(r) ==
  /\ req[r].kind = "post"
  /\ req[r].pc = "op1"
  /\ nextOid \in Oids
  /\ products' = Append(products, NewProduct(nextOid, req[r].uid, req[r].val))
  /\ nextOid' = nextOid + 1
  /\ lastw' = [lastw EXCEPT ![nextOid] = r]
  /\ req' = [req EXCEPT ![r] = Respond(req[r], 200,
               Obj({<<"success", "true">>, <<"insertedId", ToString(nextOid)>>}))]
  /\ UNCHANGED <<client, connected, handles, created, connects, carts>>

(* PUT /products/:id with body { inStock: v } *)
Put(r, i, v) == Enter(r, [IdleReq EXCEPT !.kind = "put", !.id = i, !.val = v])

(* Products.updateOne({ _id }, { $set: req.body }); success: modifiedCount > 0 *)
PutUpdateOne(r) ==
  /\ req[r].kind = "put"
  /\ req[r].pc = "op1"
  /\ LET M == MatchingProducts(req[r].id)
         modified == M # {} /\ products[FirstOf(M)].inStock # req[r].val IN
       /\ products' = IF modified
                      THEN [products EXCEPT ![FirstOf(M)].inStock = req[r].val]
                      ELSE products
       /\ lastw' = IF modified THEN [lastw EXCEPT ![req[r].id] = r] ELSE lastw
       /\ req' = [req EXCEPT ![r] = Respond(req[r], 200,
                    IF modified THEN SuccessTrue ELSE SuccessFalse)]
  /\ UNCHANGED <<client, connected, handles, created, connects, carts, nextOid>>

(* DELETE /products/:id *)
Delete(r, i) == Enter(r, [IdleReq EXCEPT !.kind = "delete", !.id = i])

(* Products.deleteOne({ _id }); success: deletedCount > 0 *)
DeleteOne(r) ==
  /\ req[r].kind = "delete"
  /\ req[r].pc = "op1"
  /\ LET M == MatchingProducts(req[r].id) IN
       /\ products' = IF M = {} THEN products
                      ELSE SubSeq(products, 1, FirstOf(M) - 1)
                           \o SubSeq(products, FirstOf(M) + 1, Len(products))
       /\ lastw' = IF M = {} THEN lastw ELSE [lastw EXCEPT ![req[r].id] = r]
       /\ req' = [req EXCEPT ![r] = Respond(req[r], 200,
                    IF M = {} THEN SuccessFalse ELSE SuccessTrue)]
  /\ UNCHANGED <<client, connected, handles, created, connects, carts, nextOid>>

(* PATCH /products/toggle/:id *)
Toggle(r, i) == Enter(r, [IdleReq EXCEPT !.kind = "toggle", !.id = i])

(* const product = await Products.findOne({ _id });                 *)
(* if (!product) return res.send({ success: false });               *)
ToggleFindOne(r) ==
  /\ req[r].kind = "toggle"
  /\ req[r].pc = "op1"
  /\ LET M == MatchingProducts(req[r].id) IN
       req' = [req EXCEPT ![r] =
                 IF M = {} THEN Respond(req[r], 200, SuccessFalse)
                 ELSE [req[r] EXCEPT !.pc = "op2", !.product = products[FirstOf(M)],
                                     !.seenw = lastw[req[r].id]]]
  /\ UNCHANGED <<client, connected, handles, created, connects, products, carts, nextOid, lastw>>

(* Products.updateOne({ _id }, { $set: { inStock: !product.inStock } }); *)
(* res.send({ success: true })                                           *)
ToggleUpdateOne(r) ==
  /\ req[r].kind = "toggle"
  /\ req[r].pc = "op2"
  /\ LET M == MatchingProducts(req[r].id)
         v == Not(req[r].product.inStock) IN
       /\ products' = IF M = {} THEN products
                      ELSE [products EXCEPT ![FirstOf(M)].inStock = v]
       /\ lastw' = IF M = {} THEN lastw ELSE [lastw EXCEPT ![req[r].id] = r]
       /\ req' = [req EXCEPT ![r] =
                    Respond([req[r] EXCEPT !.wrote = v,
                                           !.clean = (M # {} /\ lastw[req[r].id] = req[r].seenw)],
                            200, SuccessTrue)]
  /\ UNCHANGED <<client, connected, handles, created, connects, carts, nextOid>>

IdParams == 0..MaxIdParam

(* the read endpoints of the products collection *)
NextRead ==
  \/ \E r \in ReadReqs : List(r)
  \/ \E r \in ReadReqs, u \in UserIds : ByUser(r, u)
  \/ \E r \in ReadReqs, i \in IdParams : Get(r, i)
  \/ \E r \in ReadReqs, u \in UserIds, v \in {JsFalse} : Post(r, u, v)
  \/ \E r \in ReadReqs : ConnectOk(r)
  \/ \E r \in ReadReqs : ConnectFail(r)
  \/ \E r \in ReadReqs : StoreThrows(r)
  \/ \E r \in ReadReqs : ProductsFind(r)
  \/ \E r \in ReadReqs : GetFindOne(r)
  \/ \E r \in ReadReqs : PostInsertOne(r)

SpecRead == Init /\ [][NextRead]_vars

(* the write endpoints of the products collection *)
NextToggle ==
  \/ \E r \in ToggleReqs, v \in {JsFalse} : Post(r, "u1", v)
  \/ \E r \in ToggleReqs, v \in InStockVals : Put(r, 1, v)
  \/ \E r \in ToggleReqs : Delete(r, 1)
  \/ \E r \in ToggleReqs : Toggle(r, 1)
  \/ \E r \in ToggleReqs : ConnectOk(r)
  \/ \E r \in ToggleReqs : ConnectFail(r)
  \/ \E r \in ToggleReqs : StoreThrows(r)
  \/ \E r \in ToggleReqs : PostInsertOne(r)
  \/ \E r \in ToggleReqs : PutUpdateOne(r)
  \/ \E r \in ToggleReqs : DeleteOne(r)
  \/ \E r \in ToggleReqs : ToggleFindOne(r)
  \/ \E r \in ToggleReqs : ToggleUpdateOne(r)

SpecToggle == Init /\ [][NextToggle]_vars

(* ======================= properties ======================= *)
Done(q) == req[q].pc = "done"
Started(q) == req[q].pc # "idle"
IsAdd(q) == req[q].kind = "cartAdd"
AddsOf(u) == {q \in Reqs : IsAdd(q) /\ Started(q) /\ req[q].uid = u}
OkAdds(u, p) == {q \in AddsOf(u) : Done(q) /\ req[q].pid = p /\ req[q].status = 200}
CartOf(u) == carts[FirstOf(MatchingCarts(u))]

(* C1: when every cart-add of user u so far has responded, none of them     *)
(* started while another was in flight, and the n >= 1 successful ones all  *)
(* named product p, there is exactly one cart of u and its items are        *)
(* exactly <<{productId: p, qty: n}>>.                                      *)
C1_SequentialAdds ==
  \A u \in UserIds, p \in ProductIds :
    ( /\ \A q \in AddsOf(u) : Done(q) /\ ~req[q].ovl /\ (req[q].status = 200 => req[q].pid = p)
      /\ OkAdds(u, p) # {} )
    => /\ Cardinality(MatchingCarts(u)) = 1
       /\ CartOf(u).items = <<[productId |-> p, qty |-> Cardinality(OkAdds(u, p))]>>

C1_Witness ==
  /\ \A q \in AddsOf("u1") : Done(q) /\ ~req[q].ovl /\ (req[q].status = 200 => req[q].pid = "p1")
  /\ Cardinality(OkAdds("u1", "p1")) = 2
  /\ carts = <<[userId |-> "u1", items |-> <<[productId |-> "p1", qty |-> 2]>>]>>

(* C2: the carts collection holds at most one document per userId.          *)
C2_OneCartPerUser == \A u \in UserIds : Cardinality(MatchingCarts(u)) <= 1

(* C3: no cart document holds two items with the same productId.            *)
C3_NoDuplicateItems ==
  \A i \in 1..Len(carts) :
    \A a, b \in 1..Len(carts[i].items) :
      a # b => carts[i].items[a].productId # carts[i].items[b].productId

C3_Witness ==
  \E i \in 1..Len(carts) :
    /\ Len(carts[i].items) = 2
    /\ \E a \in 1..2 : carts[i].items[a].qty = 2

(* two successful adds of one user on an existing cart, q having read the   *)
(* cart while r had read and not yet written it, and no other successful    *)
(* add on that existing cart                                                *)
RacedPair(r, q) ==
  /\ r # q
  /\ IsAdd(r) /\ IsAdd(q) /\ req[r].uid = req[q].uid
  /\ Done(r) /\ Done(q) /\ req[r].status = 200 /\ req[q].status = 200
  /\ req[r].cart # Null /\ req[q].cart # Null
  /\ r \in req[q].racing
  /\ Cardinality(MatchingCarts(req[r].uid)) = 1
  /\ \A o \in AddsOf(req[r].uid) \ {r, q} :
       Done(o) /\ (req[o].status = 200 => req[o].cart = Null)

(* C4: after two overlapping successful adds that both read an existing     *)
(* cart before either wrote, the stored items are the items read plus one   *)
(* of the two adds only.                                                    *)
C4_LostUpdate ==
  \A r, q \in Reqs :
    RacedPair(r, q) =>
      /\ req[r].cart = req[q].cart
      /\ CartOf(req[r].uid).items \in {AddItem(req[r].cart.items, req[r].pid),
                                       AddItem(req[q].cart.items, req[q].pid)}

C4_Witness ==
  \E r, q \in Reqs :
    /\ RacedPair(r, q)
    /\ req[r].pid = "p1" /\ req[q].pid = "p1"
    /\ req[r].cart.items = <<[productId |-> "p1", qty |-> 1]>>
    /\ CartOf(req[r].uid).items = <<[productId |-> "p1", qty |-> 2]>>

(* C5: at most one store client is created and client.connect() is invoked *)
(* at most once.                                                            *)
C5_OneConnection == created <= 1 /\ connects <= 1

C5_Witness ==
  /\ created = 1
  /\ \E r, q \in Reqs : r # q /\ req[r].pc = "connecting" /\ Done(q)

(* C6: GET / answers {status:"ok"} only when the connection is established, *)
(* and {status:"error"} with 500 otherwise.                                 *)
C6_RootReflectsConnection ==
  [][\A r \in Reqs :
       (req[r].pc # "done" /\ req'[r].pc = "done" /\ req'[r].kind = "root") =>
         IF connected' /\ handles'
         THEN req'[r].status = 200 /\ req'[r].body = RootOk
         ELSE req'[r].status = 500 /\ req'[r].body = RootError]_vars

(* C7: a cart-add without userId or without productId is answered 400       *)
(* {success:false} and writes nothing; 500 is answered only when both are    *)
(* present.                                                                  *)
C7_MissingFieldIs400 ==
  \A r \in Reqs :
    (IsAdd(r) /\ Done(r) /\ (req[r].uid = Missing \/ req[r].pid = Missing)) =>
      req[r].status = 400 /\ req[r].body = SuccessFalse /\ req[r].cart = Null

IsGet(r) == req[r].kind = "get" /\ Done(r)

(* C8 as stated: a failing GET /products/:id answers {} with 400, an absent *)
(* product {} with 200.                                                     *)
C8_FailureIs400 ==
  \A r \in Reqs :
    IsGet(r) =>
      /\ req[r].threw => req[r].body = EmptyObject /\ req[r].status = 400
      /\ (~req[r].threw /\ req[r].product = Null) =>
            req[r].body = EmptyObject /\ req[r].status = 200

(* C8 amended: GET /products/:id answers {} with status 200 both when it    *)
(* fails and when no such product exists.                                   *)
C8_FailureIs200 ==
  \A r \in Reqs :
    IsGet(r) =>
      /\ req[r].threw => req[r].body = EmptyObject /\ req[r].status = 200
      /\ (~req[r].threw /\ req[r].product = Null) =>
            req[r].body = EmptyObject /\ req[r].status = 200
      /\ (~req[r].threw /\ req[r].product # Null) =>
            req[r].body = DocObj(req[r].product) /\ req[r].status = 200

C8_Witness ==
  \E r \in Reqs :
    IsGet(r) /\ req[r].threw /\ ~ValidObjectId(req[r].id) /\ handles /\ products # <<>>

Stock(id) == products[FirstOf(MatchingProducts(id))].inStock

(* request r completes a successful toggle whose product nobody wrote       *)
(* between r's read and r's write                                           *)
CleanToggle(r) ==
  /\ req[r].kind = "toggle" /\ req[r].pc = "op2"
  /\ req'[r].pc = "done" /\ req'[r].status = 200 /\ req'[r].clean

(* r1 is a completed successful toggle with a clean window *)
WasCleanToggle(r1) ==
  /\ r1 \in Reqs
  /\ req[r1].kind = "toggle" /\ Done(r1) /\ req[r1].status = 200 /\ req[r1].clean

ToggleMissing(r) ==
  /\ req[r].kind = "toggle" /\ req[r].pc = "op1"
  /\ req'[r].pc = "done" /\ ~req'[r].threw

ToggleSingle ==
  \A r \in Reqs : CleanToggle(r) => Stock(req[r].id)' # Stock(req[r].id)

ToggleAbsent ==
  \A r \in Reqs : ToggleMissing(r) =>
    /\ MatchingProducts(req[r].id) = {}
    /\ req'[r].body = SuccessFalse
    /\ products' = products

(* C9 as stated: whatever inStock holds, two successive toggles with no     *)
(* other write in between restore it; a single toggle changes it; a toggle  *)
(* of an absent product answers {success:false} and changes nothing.        *)
C9_ToggleTwiceAnyValue ==
  [][ /\ \A r \in Reqs :
           (CleanToggle(r) /\ WasCleanToggle(req[r].seenw)) =>
              Stock(req[r].id)' = req[req[r].seenw].product.inStock
      /\ ToggleSingle
      /\ ToggleAbsent ]_vars

(* C9 amended: when inStock holds a boolean, two successive toggles with no *)
(* other write in between restore it; whatever it holds, a single toggle    *)
(* changes it; a toggle of an absent product answers {success:false} and    *)
(* changes nothing.                                                         *)
C9_ToggleTwiceBoolean ==
  [][ /\ \A r \in Reqs :
           ( /\ CleanToggle(r) /\ WasCleanToggle(req[r].seenw)
             /\ req[req[r].seenw].product.inStock \in {JsTrue, JsFalse} ) =>
              Stock(req[r].id)' = req[req[r].seenw].product.inStock
      /\ ToggleSingle
      /\ ToggleAbsent ]_vars

C9_Witness ==
  \E r \in Reqs :
    /\ req[r].kind = "toggle" /\ Done(r) /\ req[r].status = 200 /\ req[r].clean
    /\ WasCleanToggle(req[r].seenw)
    /\ req[req[r].seenw].product.inStock = JsFalse
    /\ lastw[req[r].id] = r
    /\ Stock(req[r].id) = JsFalse

IsListing(r) == req[r].kind \in {"list", "byUser"} /\ Done(r)

(* C10: GET /products and GET /products/user/:uid always answer 200 with an *)
(* array, which is [] on any failure.                                       *)
C10_ListingsAreArrays ==
  \A r \in Reqs :
    IsListing(r) =>
      /\ req[r].status = 200
      /\ req[r].body.type = "array"
      /\ req[r].threw => req[r].body = EmptyArray
      /\ \A k \in 1..Len(req[r].body.arr) :
           req[r].kind = "byUser" => req[r].body.arr[k].userId = req[r].uid

C10_Witness ==
  \E r, q \in Reqs :
    /\ IsListing(r) /\ req[r].threw /\ req[r].body = EmptyArray
    /\ req[q].pc = "connecting"

====
